---- MODULE Spec2Model ----
(***************************************************************************)
(* The component resource of terraform-provider-instatus                   *)
(* (src/instatus/component_resource.go): the five handlers Create, Read,   *)
(* Update, Delete and ImportState, acting on the Terraform state of one    *)
(* resource instance and on the remote component service.                  *)
(*                                                                         *)
(* A Go string is a sequence of pieces: a string literal of the source is  *)
(* one piece, an import identifier is a sequence of one-character pieces,  *)
(* "+" is \o and "" is << >>.  A Go pointer is Nil or Ptr(v).  A framework *)
(* value (types.String, types.Bool) is TfNull, TfUnknown or TfVal(v).      *)
(***************************************************************************)
EXTENDS Integers, Sequences, FiniteSets, TLC

VARIABLES
    config,     \* the configuration of the resource Terraform plans from
    state,      \* the Terraform state of the resource: NoState or a componentResourceModel
    op,         \* the last handler that ran: [name, ok]
    plan,       \* the plan (Create, Update) the last handler read, else NoPlan
    resp,       \* the component the remote call of the last handler returned, else NoResp
    calls,      \* the remote calls the last handler made, in order
    err,        \* the error the remote call of the last handler returned, else NoErr
    diags,      \* resp.Diagnostics of the last handler
    raw,        \* req.ID of the last ImportState, else << >>
    roundTrip   \* the last handler is a successful Read that directly followed a
                \* successful Create and was answered with the same component

vars == <<config, state, op, plan, resp, calls, err, diags, raw, roundTrip>>

---------------------------------------------------------------------------
(* Bounds *)

\* the longest import identifier, in characters
MaxLen == 5

---------------------------------------------------------------------------
(* Go pointers and framework values *)

Nil == [nil |-> TRUE]
Ptr(v) == [nil |-> FALSE, v |-> v]

TfNull == [kind |-> "null"]
TfUnknown == [kind |-> "unknown"]
TfVal(v) == [kind |-> "value", v |-> v]

\* basetypes.StringValue.ValueString: "" for null and unknown
ValueString(t) == IF t.kind = "value" THEN t.v ELSE << >>

\* basetypes.StringValue.ValueStringPointer: nil for null, else a pointer to the
\* value held ("" for unknown)
ValueStringPointer(t) == IF t.kind = "null" THEN Nil ELSE Ptr(ValueString(t))

\* basetypes.BoolValue.ValueBoolPointer: nil for null, else a pointer to the value
\* held (false for unknown)
ValueBoolPointer(t) ==
    IF t.kind = "null" THEN Nil
    ELSE IF t.kind = "value" THEN Ptr(t.v) ELSE Ptr(FALSE)

\* types.StringPointerValue: null for nil, else the value pointed to
StringPointerValue(p) == IF p.nil THEN TfNull ELSE TfVal(p.v)

\* types.BoolPointerValue
BoolPointerValue(p) == IF p.nil THEN TfNull ELSE TfVal(p.v)

\* types.BoolValue
BoolValue(b) == TfVal(b)

---------------------------------------------------------------------------
(* Strings of the model *)

API == <<"API">>
Web == <<"Web">>
Pg1 == <<"pg_1">>
Cmp1 == <<"cmp_1">>
Cmp2 == <<"cmp_2">>
Desc == <<"status of the API">>
Backend == <<"Backend">>
Grp9 == <<"grp_9">>

\* the characters of an import identifier
Chars == {"a", "/"}

\* every import identifier of at most MaxLen characters
ImportIds == UNION {[1..n -> Chars] : n \in 0..MaxLen}

\* the error texts of the remote client (err.Error())
ErrTexts == {<<"404 Not Found">>, <<"context deadline exceeded">>}

---------------------------------------------------------------------------
(* State, plans, responses *)

NoState == [absent |-> TRUE]
NoPlan == [none |-> TRUE]
NoResp == [none |-> TRUE]
NoErr == [none |-> TRUE]

\* componentResourceModel with every attribute null: the empty state ImportState starts from
EmptyModel ==
    [id |-> TfNull, name |-> TfNull, page_id |-> TfNull, description |-> TfNull,
     show_uptime |-> TfNull, grouped |-> TfNull, group_name |-> TfNull,
     group_id |-> TfNull]

\* the configurations of the resource a practitioner can write: page_id and name
\* are Required, the others Optional.  The two optional display attributes are
\* written together or left out together; the three group attributes vary freely.
Configs ==
    {cfg \in [page_id : {Pg1}, name : {API},
              description : {TfNull, TfVal(Desc)},
              show_uptime : {TfNull, TfVal(TRUE)},
              grouped : {TfNull, TfVal(TRUE)},
              group_name : {TfNull, TfVal(Backend)},
              group_id : {TfNull, TfVal(Grp9)}] :
        (cfg.description = TfNull) <=> (cfg.show_uptime = TfNull)}

\* "grouped": Optional, Computed, Default booldefault.StaticBool(false)
GroupedDefault(g) == IF g.kind = "null" THEN TfVal(FALSE) ELSE g

\* "id": Computed with stringplanmodifier.UseStateForUnknown(): the planned id is
\* the state's when the state holds one, else unknown
PlannedId(st) ==
    IF st = NoState THEN TfUnknown
    ELSE IF st.id.kind = "null" THEN TfUnknown ELSE st.id

\* the plan Terraform hands to Create and Update for configuration cfg over state st
PlanOf(cfg, st) ==
    [id |-> PlannedId(st),
     name |-> TfVal(cfg.name),
     page_id |-> TfVal(cfg.page_id),
     description |-> cfg.description,
     show_uptime |-> cfg.show_uptime,
     grouped |-> GroupedDefault(cfg.grouped),
     group_name |-> cfg.group_name,
     group_id |-> cfg.group_id]

\* the components the remote client can return: every field is a pointer; the
\* service names every component it returns
Responses ==
    [ID : {Nil, Ptr(Cmp1), Ptr(Cmp2)},
     Name : {Ptr(Web)},
     Description : {Nil, Ptr(Desc)},
     ShowUptime : {Nil, Ptr(FALSE)},
     Grouped : {Ptr(FALSE), Ptr(TRUE)},
     Group : [Name : {Nil, Ptr(Backend)}, Id : {Nil, Ptr(Grp9)}]]

---------------------------------------------------------------------------
(* Diagnostics *)

ErrorDiag(summary, detail) ==
    [severity |-> "error", summary |-> summary, detail |-> detail]

HasError(ds) == \E i \in 1..Len(ds) : ds[i].severity = "error"

---------------------------------------------------------------------------
(* Create *)

\* CreateItem with the group taken from group_name, as Update does
CreateItem_GroupFromName(p) ==
    [Name |-> ValueStringPointer(p.name),
     Description |-> ValueStringPointer(p.description),
     ShowUptime |-> ValueBoolPointer(p.show_uptime),
     Grouped |-> ValueBoolPointer(p.grouped),
     Group |-> ValueStringPointer(p.group_name),
     GroupId |-> ValueStringPointer(p.group_id)]

\* the is.Component Create sends
CreateItem(p) ==
    [Name |-> ValueStringPointer(p.name),
     Description |-> ValueStringPointer(p.description),
     ShowUptime |-> ValueBoolPointer(p.show_uptime),
     Grouped |-> ValueBoolPointer(p.grouped),
     Group |-> ValueStringPointer(p.group_id),
     GroupId |-> ValueStringPointer(p.group_id)]

\* CreateState without the assignment of plan.ID
CreateState_KeepPlanId(p, c) ==
    [p EXCEPT !.description = StringPointerValue(c.Description),
              !.group_name = StringPointerValue(c.Group.Name),
              !.group_id = StringPointerValue(c.Group.Id)]

\* CreateState without the assignment of plan.Description
CreateState_KeepPlanDescription(p, c) ==
    [p EXCEPT !.id = StringPointerValue(c.ID),
              !.group_name = StringPointerValue(c.Group.Name),
              !.group_id = StringPointerValue(c.Group.Id)]

\* the model Create writes to state: the plan with the computed values of the response
CreateState(p, c) ==
    [p EXCEPT !.id = StringPointerValue(c.ID),
              !.description = StringPointerValue(c.Description),
              !.group_name = StringPointerValue(c.Group.Name),
              !.group_id = StringPointerValue(c.Group.Id)]

CreateErrorDiag(e) ==
    ErrorDiag(<<"Error creating component">>,
              <<"Could not create component, unexpected error: ">> \o e)

CreateCall(p) ==
    [method |-> "CreateComponent", pageId |-> ValueString(p.page_id),
     id |-> << >>, item |-> CreateItem(p)]

CreateOk(p, c) ==
    /\ calls' = <<CreateCall(p)>>
    /\ resp' = c
    /\ err' = NoErr
    /\ diags' = << >>
    /\ state' = CreateState(p, c)
    /\ op' = [name |-> "Create", ok |-> TRUE]

CreateFail(p, e) ==
    /\ calls' = <<CreateCall(p)>>
    /\ resp' = NoResp
    /\ err' = e
    /\ diags' = <<CreateErrorDiag(e)>>
    /\ state' = state
    /\ op' = [name |-> "Create", ok |-> FALSE]

Create ==
    /\ state = NoState
    /\ LET p == PlanOf(config, state) IN
       /\ plan' = p
       /\ \/ \E c \in Responses : CreateOk(p, c)
          \/ \E e \in ErrTexts : CreateFail(p, e)
    /\ raw' = << >>
    /\ roundTrip' = FALSE
    /\ UNCHANGED config

---------------------------------------------------------------------------
(* Read *)

\* ReadState with grouped copied from the component's own flag
ReadState_GroupedFlag(st, c) ==
    [st EXCEPT !.name = StringPointerValue(c.Name),
               !.description = StringPointerValue(c.Description),
               !.show_uptime = BoolPointerValue(c.ShowUptime),
               !.grouped = BoolPointerValue(c.Grouped),
               !.group_name = StringPointerValue(c.Group.Name),
               !.group_id = StringPointerValue(c.Group.Id)]

\* ReadState that also refreshes id from the component
ReadState_IdFromResponse(st, c) ==
    [st EXCEPT !.id = StringPointerValue(c.ID),
               !.name = StringPointerValue(c.Name),
               !.description = StringPointerValue(c.Description),
               !.show_uptime = BoolPointerValue(c.ShowUptime),
               !.grouped = BoolValue(~c.Group.Name.nil),
               !.group_name = StringPointerValue(c.Group.Name),
               !.group_id = StringPointerValue(c.Group.Id)]

\* the state Read writes: the prior state overwritten with the refreshed component
ReadState(st, c) ==
    [st EXCEPT !.name = StringPointerValue(c.Name),
               !.description = StringPointerValue(c.Description),
               !.show_uptime = BoolPointerValue(c.ShowUptime),
               !.grouped = BoolValue(~c.Group.Name.nil),
               !.group_name = StringPointerValue(c.Group.Name),
               !.group_id = StringPointerValue(c.Group.Id)]

ReadErrorDiag(st, e) ==
    ErrorDiag(<<"Error Reading Instatus Component">>,
              <<"Could not read Instatus component ID ">> \o ValueString(st.id)
                  \o <<": ">> \o e)

ReadCall(st) ==
    [method |-> "GetComponent", pageId |-> ValueString(st.page_id),
     id |-> ValueString(st.id), item |-> Nil]

ReadOk(c) ==
    /\ calls' = <<ReadCall(state)>>
    /\ resp' = c
    /\ err' = NoErr
    /\ diags' = << >>
    /\ state' = ReadState(state, c)
    /\ op' = [name |-> "Read", ok |-> TRUE]
    /\ roundTrip' = (op = [name |-> "Create", ok |-> TRUE] /\ resp = c)

ReadFail(e) ==
    /\ calls' = <<ReadCall(state)>>
    /\ resp' = NoResp
    /\ err' = e
    /\ diags' = <<ReadErrorDiag(state, e)>>
    /\ state' = state
    /\ op' = [name |-> "Read", ok |-> FALSE]
    /\ roundTrip' = FALSE

Read ==
    /\ state # NoState
    /\ \/ \E c \in Responses : ReadOk(c)
       \/ \E e \in ErrTexts : ReadFail(e)
    /\ plan' = NoPlan
    /\ raw' = << >>
    /\ UNCHANGED config

---------------------------------------------------------------------------
(* Update *)

\* the is.Component Update sends
UpdateItem(p) ==
    [Name |-> ValueStringPointer(p.name),
     Description |-> ValueStringPointer(p.description),
     ShowUptime |-> ValueBoolPointer(p.show_uptime),
     Grouped |-> ValueBoolPointer(p.grouped),
     Group |-> ValueStringPointer(p.group_name),
     GroupId |-> ValueStringPointer(p.group_id)]

\* UpdateState with grouped derived from the group name, as Read does
UpdateState_GroupedDerived(p, c) ==
    [p EXCEPT !.id = StringPointerValue(c.ID),
              !.grouped = BoolValue(~c.Group.Name.nil),
              !.group_name = StringPointerValue(c.Group.Name),
              !.description = StringPointerValue(c.Description),
              !.group_id = StringPointerValue(c.Group.Id)]

\* the model Update writes to state
UpdateState(p, c) ==
    [p EXCEPT !.id = StringPointerValue(c.ID),
              !.group_name = StringPointerValue(c.Group.Name),
              !.description = StringPointerValue(c.Description),
              !.group_id = StringPointerValue(c.Group.Id)]

UpdateErrorDiag(e) ==
    ErrorDiag(<<"Error Updating Instatus Component">>,
              <<"Could not update component, unexpected error: ">> \o e)

UpdateCall(p) ==
    [method |-> "UpdateComponent", pageId |-> ValueString(p.page_id),
     id |-> ValueString(p.id), item |-> UpdateItem(p)]

UpdateOk(p, c) ==
    /\ calls' = <<UpdateCall(p)>>
    /\ resp' = c
    /\ err' = NoErr
    /\ diags' = << >>
    /\ state' = UpdateState(p, c)
    /\ op' = [name |-> "Update", ok |-> TRUE]

\* UpdateFail that sets the state to the plan before it returns
UpdateFail_WritesPlan(p, e) ==
    /\ calls' = <<UpdateCall(p)>>
    /\ resp' = NoResp
    /\ err' = e
    /\ diags' = <<UpdateErrorDiag(e)>>
    /\ state' = p
    /\ op' = [name |-> "Update", ok |-> FALSE]

UpdateFail(p, e) ==
    /\ calls' = <<UpdateCall(p)>>
    /\ resp' = NoResp
    /\ err' = e
    /\ diags' = <<UpdateErrorDiag(e)>>
    /\ state' = state
    /\ op' = [name |-> "Update", ok |-> FALSE]

Update ==
    /\ state # NoState
    /\ LET p == PlanOf(config, state) IN
       /\ plan' = p
       /\ \/ \E c \in Responses : UpdateOk(p, c)
          \/ \E e \in ErrTexts : UpdateFail(p, e)
    /\ raw' = << >>
    /\ roundTrip' = FALSE
    /\ UNCHANGED config

---------------------------------------------------------------------------
(* Delete *)

DeleteErrorDiag(e) ==
    ErrorDiag(<<"Error Deleting Instatus Component">>,
              <<"Could not delete component, unexpected error: ">> \o e)

DeleteCall(st) ==
    [method |-> "DeleteComponent", pageId |-> ValueString(st.page_id),
     id |-> ValueString(st.id), item |-> Nil]

\* Delete returns without an error diagnostic and the framework removes the state
DeleteOk ==
    /\ calls' = <<DeleteCall(state)>>
    /\ err' = NoErr
    /\ diags' = << >>
    /\ state' = NoState
    /\ op' = [name |-> "Delete", ok |-> TRUE]

DeleteFail(e) ==
    /\ calls' = <<DeleteCall(state)>>
    /\ err' = e
    /\ diags' = <<DeleteErrorDiag(e)>>
    /\ state' = state
    /\ op' = [name |-> "Delete", ok |-> FALSE]

Delete ==
    /\ state # NoState
    /\ \/ DeleteOk
       \/ \E e \in ErrTexts : DeleteFail(e)
    /\ resp' = NoResp
    /\ plan' = NoPlan
    /\ raw' = << >>
    /\ roundTrip' = FALSE
    /\ UNCHANGED config

---------------------------------------------------------------------------
(* ImportState *)

\* the index of the first sep in s, 0 when there is none
RECURSIVE IndexFrom(_, _, _)
IndexFrom(s, sep, i) ==
    IF i > Len(s) THEN 0
    ELSE IF s[i] = sep THEN i ELSE IndexFrom(s, sep, i + 1)

\* strings.Split(s, sep) for a one-character sep: the pieces of s between the
\* occurrences of sep, one more piece than there are occurrences
RECURSIVE Split(_, _)
Split(s, sep) ==
    LET i == IndexFrom(s, sep, 1) IN
    IF i = 0 THEN <<s>>
    ELSE <<SubSeq(s, 1, i - 1)>> \o Split(SubSeq(s, i + 1, Len(s)), sep)

\* State.SetAttribute on a root attribute
SetAttribute(st, attr, v) == [st EXCEPT ![attr] = TfVal(v)]

\* resource.ImportStatePassthroughID: req.ID written to the attribute
ImportStatePassthroughID(st, attr, id) == SetAttribute(st, attr, id)

\* ValidParts without the two checks for an empty part
ValidParts_CountOnly(idParts) == ~(Len(idParts) # 2)

\* the check of ImportState on the parts of the identifier
ValidParts(idParts) ==
    ~(Len(idParts) # 2 \/ idParts[1] = << >> \/ idParts[2] = << >>)

ImportErrorDiag(id) ==
    ErrorDiag(<<"Invalid import identifier">>,
              <<"Import identifier must be in the format 'PageId/id'. Got: ">> \o id)

\* ImportedState without the last SetAttribute, the one that overwrites id
ImportedState_PassthroughOnly(id, idParts) ==
    LET s1 == ImportStatePassthroughID(EmptyModel, "id", id)
    IN  SetAttribute(s1, "page_id", idParts[1])

\* the state ImportState writes for a well-formed identifier
ImportedState(id, idParts) ==
    LET s1 == ImportStatePassthroughID(EmptyModel, "id", id)
        s2 == SetAttribute(s1, "page_id", idParts[1])
    IN  SetAttribute(s2, "id", idParts[2])

ImportOk(id, idParts) ==
    /\ ValidParts(idParts)
    /\ diags' = << >>
    /\ state' = ImportedState(id, idParts)
    /\ op' = [name |-> "ImportState", ok |-> TRUE]

ImportFail(id, idParts) ==
    /\ ~ValidParts(idParts)
    /\ diags' = <<ImportErrorDiag(id)>>
    /\ state' = state
    /\ op' = [name |-> "ImportState", ok |-> FALSE]

ImportState ==
    /\ state = NoState
    /\ \E id \in ImportIds :
         LET idParts == Split(id, "/") IN
         /\ raw' = id
         /\ \/ ImportOk(id, idParts)
            \/ ImportFail(id, idParts)
    /\ calls' = << >>
    /\ resp' = NoResp
    /\ err' = NoErr
    /\ plan' = NoPlan
    /\ roundTrip' = FALSE
    /\ UNCHANGED config

---------------------------------------------------------------------------

Init ==
    /\ config \in Configs
    /\ state = NoState
    /\ op = [name |-> "none", ok |-> TRUE]
    /\ plan = NoPlan
    /\ resp = NoResp
    /\ calls = << >>
    /\ err = NoErr
    /\ diags = << >>
    /\ raw = << >>
    /\ roundTrip = FALSE

Next ==
    \/ Create
    \/ Read
    \/ Update
    \/ Delete
    \/ ImportState

Spec == Init /\ [][Next]_vars

---------------------------------------------------------------------------
(* Vocabulary of the properties *)

\* t occurs in s as a contiguous run of pieces
Contains(s, t) ==
    \E i \in 0..(Len(s) - Len(t)) : SubSeq(s, i + 1, i + Len(t)) = t

\* the number of '/' in an import identifier
SlashCount(s) == Cardinality({i \in 1..Len(s) : s[i] = "/"})

\* the non-empty strings without '/' an import identifier can hold
Segments == UNION {[1..n -> Chars \ {"/"}] : n \in 1..MaxLen}

\* an identifier whose split on '/' is not two non-empty segments
Malformed(s) ==
    \/ SlashCount(s) # 1
    \/ s[1] = "/"
    \/ s[Len(s)] = "/"

\* the value a state attribute takes from a response field: null when omitted
FromResponse(ptr) == IF ptr = Nil THEN TfNull ELSE TfVal(ptr.v)

\* the request field a plan attribute is sent as: absent when the attribute is null
Carried(t) == IF t = TfNull THEN Nil ELSE Ptr(t.v)

\* the summary by which the diagnostic of a failed remote call names its operation
Naming(name) ==
    CASE name = "Create" -> <<"Error creating component">>
      [] name = "Read" -> <<"Error Reading Instatus Component">>
      [] name = "Update" -> <<"Error Updating Instatus Component">>
      [] name = "Delete" -> <<"Error Deleting Instatus Component">>

Remote == {"Create", "Read", "Update", "Delete"}

Succeeded(name) == op = [name |-> name, ok |-> TRUE]

---------------------------------------------------------------------------
(* Properties *)

\* C1: an import identifier "P/ID" with P and ID non-empty and free of '/' is
\* imported without error, and the state holds page_id = P and id = ID, not the
\* raw identifier the passthrough wrote to id first.
C1_ImportWellFormed ==
    \A P \in Segments, ID \in Segments :
        (op.name = "ImportState" /\ raw = P \o <<"/">> \o ID) =>
            /\ op.ok
            /\ ~HasError(diags)
            /\ state # NoState
            /\ state.page_id = TfVal(P)
            /\ state.id = TfVal(ID)

C1_Witness ==
    /\ Succeeded("ImportState")
    /\ raw = <<"a", "a", "/", "a">>
    /\ state.page_id = TfVal(<<"a", "a">>)
    /\ state.id = TfVal(<<"a">>)

\* C2: an import identifier that does not split on '/' into exactly two non-empty
\* segments fails with exactly one error diagnostic whose message holds the raw
\* identifier, and nothing is written to the state.
C2_ImportMalformed ==
    (op.name = "ImportState" /\ Malformed(raw)) =>
        /\ ~op.ok
        /\ Len(diags) = 1
        /\ diags[1].severity = "error"
        /\ Contains(diags[1].detail, raw)
        /\ state = NoState

C2_Witness ==
    /\ op = [name |-> "ImportState", ok |-> FALSE]
    /\ raw = <<"a", "/", "a", "/", "a">>
    /\ Len(diags) = 1
    /\ state = NoState

\* C3: when the remote call of Create, Read, Update or Delete returns an error,
\* the handler makes that one call only, reports one error diagnostic that names
\* the operation and holds the error's text, and leaves the state as it was.
C3_RemoteError ==
    [][(op'.name \in Remote /\ ~op'.ok) =>
          /\ Len(calls') = 1
          /\ Len(diags') = 1
          /\ diags'[1].severity = "error"
          /\ diags'[1].summary = Naming(op'.name)
          /\ err' \in ErrTexts
          /\ Contains(diags'[1].detail, err')
          /\ state' = state]_vars

C3_Witness ==
    /\ op = [name |-> "Update", ok |-> FALSE]
    /\ state # NoState
    /\ state.id = TfVal(Cmp1)
    /\ plan.grouped # state.grouped
    /\ Len(calls) = 1
    /\ HasError(diags)

\* C4: after a successful Read, grouped is true exactly when the response holds a
\* group name, whatever the response's own grouped flag says.
C4_ReadGrouped ==
    Succeeded("Read") => state.grouped = TfVal(resp.Group.Name # Nil)

C4_Witness ==
    /\ Succeeded("Read")
    /\ resp.Grouped = Ptr(TRUE)
    /\ resp.Group.Name = Nil
    /\ resp.Group.Id # Nil
    /\ state.grouped = TfVal(FALSE)

\* C5: a successful Read looks the component up with the page_id and id of the
\* prior state and keeps both in the state whatever the response holds; name,
\* description and show_uptime become the response's, null when it omits them.
C5_ReadFrame ==
    [][(op'.name = "Read" /\ op'.ok) =>
          /\ Len(calls') = 1
          /\ calls'[1].method = "GetComponent"
          /\ calls'[1].pageId = ValueString(state.page_id)
          /\ calls'[1].id = ValueString(state.id)
          /\ state'.page_id = state.page_id
          /\ state'.id = state.id
          /\ state'.name = FromResponse(resp'.Name)
          /\ state'.description = FromResponse(resp'.Description)
          /\ state'.show_uptime = FromResponse(resp'.ShowUptime)]_vars

C5_Witness ==
    /\ Succeeded("Read")
    /\ state.id = TfVal(Cmp1)
    /\ resp.ID = Ptr(Cmp2)
    /\ calls[1].id = Cmp1
    /\ resp.Description = Nil
    /\ state.description = TfNull

\* C6: the request of Create carries group = plan.group_id and groupId =
\* plan.group_id, the request of Update group = plan.group_name and groupId =
\* plan.group_id; both carry name, description, showUptime and grouped as the
\* plan holds them, an absent attribute staying absent.
C6_RequestFields ==
    op.name \in {"Create", "Update"} =>
        LET item == calls[1].item IN
        /\ item.Name = Carried(plan.name)
        /\ item.Description = Carried(plan.description)
        /\ item.ShowUptime = Carried(plan.show_uptime)
        /\ item.Grouped = Carried(plan.grouped)
        /\ item.GroupId = Carried(plan.group_id)
        /\ op.name = "Create" => item.Group = Carried(plan.group_id)
        /\ op.name = "Update" => item.Group = Carried(plan.group_name)

C6_Witness ==
    /\ op.name = "Create"
    /\ plan.group_name = TfVal(Backend)
    /\ plan.group_id = TfNull
    /\ plan.description = TfNull
    /\ calls[1].item.Group = Nil
    /\ calls[1].item.Description = Nil

\* C7: a successful Create or Update writes name, show_uptime, grouped and page_id
\* as the plan holds them whatever the response holds; a configuration without
\* grouped is planned as grouped = false and its state never holds grouped = true.
C7_PlanFieldsKept ==
    (Succeeded("Create") \/ Succeeded("Update")) =>
        /\ state.name = plan.name
        /\ state.show_uptime = plan.show_uptime
        /\ state.grouped = plan.grouped
        /\ state.page_id = plan.page_id
        /\ config.grouped = TfNull => state.grouped = TfVal(FALSE)

C7_Witness ==
    /\ Succeeded("Update")
    /\ config.grouped = TfNull
    /\ resp.Group.Name = Ptr(Backend)
    /\ resp.Grouped = Ptr(TRUE)
    /\ resp.Name # Carried(plan.name)
    /\ state.grouped = TfVal(FALSE)

\* C8 as stated: after a successful Create the id in the state is populated,
\* for every response of the service.
C8_CreateIdPopulated ==
    Succeeded("Create") => state.id.kind = "value"

\* C8 as amended: after a successful Create the id in the state is the id of the
\* response: populated when the response holds one, null when it omits it.
C8_CreateIdFromResponse ==
    Succeeded("Create") =>
        /\ state.id = FromResponse(resp.ID)
        /\ (state.id.kind = "value") <=> (resp.ID # Nil)
        /\ state.id # TfUnknown

C8_Witness ==
    /\ Succeeded("Create")
    /\ resp.ID = Nil
    /\ state.id = TfNull

\* C9: a successful Read that directly follows a successful Create and is answered
\* with the same component leaves group_name, group_id and description as Create
\* wrote them.
C9_RoundTrip ==
    [][(Succeeded("Create") /\ op'.name = "Read" /\ op'.ok /\ resp' = resp) =>
          /\ state'.group_name = state.group_name
          /\ state'.group_id = state.group_id
          /\ state'.description = state.description]_vars

C9_Witness ==
    /\ roundTrip
    /\ config.description = TfVal(Desc)
    /\ config.group_name = TfNull
    /\ state.description = TfNull
    /\ state.group_name = TfVal(Backend)
    /\ state.group_id = TfNull

\* C10: once the state holds an id, no successful Read or Update changes it.
C10_IdImmutable ==
    [][(state # NoState /\ state.id.kind = "value"
          /\ op'.name \in {"Read", "Update"} /\ op'.ok) =>
          state'.id = state.id]_vars

====
